---- MODULE Spec2Model ----
(***************************************************************************)
(* Git sync orchestration of the Insomnia desktop client.                  *)
(*                                                                         *)
(* Two React components drive the GitVCS engine:                           *)
(*   - GitSyncDropdown (pull, push, branch switch, metadata refresh)       *)
(*   - GitBranchesModalClass (create, merge, delete, checkout, remote      *)
(*     checkout of branches).                                              *)
(* Their handlers are async functions.  Every `await` is a point where     *)
(* other handlers may run, so each handler invocation is a small process   *)
(* whose pc names the operation it is awaiting.  One step of a process is  *)
(* "the awaited operation completes, the code after the await runs up to   *)
(* the next await, and the next awaited operation is invoked".             *)
(*                                                                         *)
(* The engine (GitVCS), the local database (bufferChanges / flushChanges)  *)
(* and the workspace metadata store are collaborators whose code is not    *)
(* part of the two components; they are modelled from their documented     *)
(* contracts.                                                              *)
(***************************************************************************)
EXTENDS Integers, Sequences, FiniteSets, TLC

\* ------------------------------------------------------------------ bounds
MaxProcs == 2       \* handler invocations that may be in flight together
MaxActions == 2     \* user-triggered handler invocations in one behaviour
MaxCommits == 4     \* commits the object store may hold
MaxEnv == 1         \* configure / unconfigure / remote events in one behaviour

\* --------------------------------------------------------------- constants
Procs == 1..MaxProcs
AllBranches == {"main", "feature", "hotfix"}
Null == <<>>
Some(v) == <<v>>
MsPerSecond == 1000
ShallowDepth == 1
DeepDepth == 20

VARIABLES
    eng,        \* the VCS engine (GitVCS) and the remote it talks to
    db,         \* the local document database and its change buffer
    meta,       \* the persisted workspace metadata record
    entities,   \* in-memory entity indexes rebuilt by initializeEntities
    dstate,     \* GitSyncDropdown.state
    mstate,     \* GitBranchesModalClass.state
    modal,      \* the branches modal: [open, onHide]
    staging,    \* TRUE while the staging modal (GitStagingModal) is shown
    alert,      \* the alert currently shown by showAlert
    procs,      \* the handler invocations in flight
    started,    \* handler invocations started by the user so far
    envSteps,   \* environment events so far
    ev          \* what the latest step did (observation only)

vars == <<eng, db, meta, entities, dstate, mstate, modal, staging, alert, procs, started, envSteps, ev>>

\* ================================================================ engine
\* Commits are numbered in creation order; commit k is commits[k] and its
\* author timestamp is 100 + k seconds.
\* A tree is the set of commit numbers whose changes it contains.
Commit(parents, tree, name, k) ==
    [parents |-> parents, tree |-> tree,
     author |-> [name |-> name, timestamp |-> 100 + k]]

TreeOf(e, c) == IF c = 0 THEN {} ELSE e.commits[c].tree

RECURSIVE Ancestors(_, _)
Ancestors(e, c) ==
    IF c = 0 THEN {}
    ELSE {c} \cup UNION {Ancestors(e, q) : q \in e.commits[c].parents}

IsAncestor(e, a, c) == a = 0 \/ a \in Ancestors(e, c)

\* One history entry, shaped like GitLogEntry.
LogEntry(e, c) == [oid |-> c, commit |-> [author |-> e.commits[c].author]]

RECURSIVE NewestFirst(_, _)
NewestFirst(e, S) ==
    IF S = {} THEN <<>>
    ELSE LET c == CHOOSE x \in S :
                    \A y \in S : e.commits[y].author.timestamp <= e.commits[x].author.timestamp
         IN <<LogEntry(e, c)>> \o NewestFirst(e, S \ {c})

\* An outcome of an engine operation: an error code ("" for success), the
\* value returned, and the engine and database afterwards.
Outcome(err, val, e, d) == [err |-> err, val |-> val, eng |-> e, db |-> d]
Fail(code, e, d) == Outcome(code, Null, e, d)

\* A write to the local database: applied at once, or queued while a buffer is open.
DbWrite(d, tree) ==
    IF d.open = {} THEN [d EXCEPT !.tree = tree]
    ELSE [d EXCEPT !.queue = Some(tree)]

\* db.bufferChanges(): opens a buffer scope and returns its id.
BufferChanges(d) == [d EXCEPT !.counter = @ + 1, !.open = @ \cup {d.counter + 1}]

\* db.flushChanges(id): closes the scope; queued writes become visible when
\* the outermost scope closes.
FlushChanges(d, id) ==
    LET open == d.open \ {id}
    IN IF open = {} /\ d.queue # Null
       THEN [d EXCEPT !.open = open, !.tree = d.queue[1], !.queue = Null]
       ELSE [d EXCEPT !.open = open]

IsInitialized(e) == e.initialized

GetBranch(e, d) ==
    IF ~e.initialized THEN {Fail("EngineUninitializedError", e, d)}
    ELSE {Outcome("", e.branch, e, d)}

ListBranches(e, d) ==
    IF ~e.initialized THEN {Fail("EngineUninitializedError", e, d)}
    ELSE {Outcome("", e.branches, e, d)}

ListRemoteBranches(e, d) ==
    IF ~e.initialized THEN {Fail("EngineUninitializedError", e, d)}
    ELSE {Outcome("", {b \in AllBranches : e.refs[b] # 0}, e, d)}

Log(e, d) ==
    IF ~e.initialized THEN {Fail("EngineUninitializedError", e, d)}
    ELSE {Outcome("", NewestFirst(e, Ancestors(e, e.head[e.branch])), e, d)}

\* checkout(branch): an existing local branch, else a local tracking branch of
\* a fetched remote branch, else a new branch at the current head.
CheckoutTarget(e, b) ==
    IF b \in e.branches THEN e.head[b]
    ELSE IF e.refs[b] # 0 THEN e.refs[b]
    ELSE e.head[e.branch]

Checkout(e, d, b) ==
    IF ~e.initialized THEN {Fail("EngineUninitializedError", e, d)}
    ELSE LET c == CheckoutTarget(e, b)
         IN {Fail("EngineError", e, d),
             Outcome("", Null,
                     [e EXCEPT !.branch = b, !.branches = @ \cup {b},
                               !.head[b] = c, !.workTree = TreeOf(e, c)],
                     DbWrite(d, TreeOf(e, c)))}

\* A merge commit of `theirs` into `ours`: two parents, both trees.
MergeCommit(e, ours, theirs) ==
    Commit({ours, theirs} \ {0}, TreeOf(e, ours) \cup TreeOf(e, theirs),
           "alice", Len(e.commits) + 1)

\* merge(branch): a new two-parent commit on the current branch; the working
\* tree is not touched.
Merge(e, d, b) ==
    IF ~e.initialized THEN {Fail("EngineUninitializedError", e, d)}
    ELSE IF b \notin e.branches THEN {Fail("EngineError", e, d)}
    ELSE {Fail("MergeConflictError", e, d)} \cup
         (IF Len(e.commits) >= MaxCommits THEN {}
          ELSE {Outcome("", Null,
                  [e EXCEPT !.commits = Append(@, MergeCommit(e, e.head[e.branch], e.head[b])),
                            !.head[e.branch] = Len(e.commits) + 1],
                  d)})

DeleteBranch(e, d, b) ==
    IF ~e.initialized THEN {Fail("EngineUninitializedError", e, d)}
    ELSE IF b = e.branch THEN {Fail("PreconditionError", e, d)}
    ELSE IF b \notin e.branches THEN {Fail("EngineError", e, d)}
    ELSE {Outcome("", Null, [e EXCEPT !.branches = @ \ {b}, !.head[b] = 0], d)}

CanPush(e, d) ==
    IF ~e.initialized THEN {Fail("EngineUninitializedError", e, d)}
    ELSE {Fail("NetworkError", e, d),
          Outcome("", e.head[e.branch] # e.remote[e.branch], e, d)}

Push(e, d, force) ==
    IF ~e.initialized THEN {Fail("EngineUninitializedError", e, d)}
    ELSE LET h == e.head[e.branch]
         IN {Fail("NetworkError", e, d)} \cup
            (IF force \/ IsAncestor(e, e.remote[e.branch], h)
             THEN {Outcome("", Null,
                     [e EXCEPT !.remote[e.branch] = h, !.refs[e.branch] = h], d)}
             ELSE {Fail("PushRejectedError", e, d)})

Fetch(e, d) ==
    IF ~e.initialized THEN {Fail("EngineUninitializedError", e, d)}
    ELSE {Fail("NetworkError", e, d),
          Outcome("", Null, [e EXCEPT !.refs = e.remote], d)}

\* pull: fetch, then fast-forward or merge the current branch from its remote
\* counterpart and materialize the result.
Pull(e, d) ==
    IF ~e.initialized THEN {Fail("EngineUninitializedError", e, d)}
    ELSE LET h == e.head[e.branch]
             r == e.remote[e.branch]
             f == [e EXCEPT !.refs = e.remote]
         IN {Fail("NetworkError", e, d)} \cup
            (IF IsAncestor(e, r, h) THEN {Outcome("", Null, f, d)}
             ELSE IF IsAncestor(e, h, r)
             THEN {Outcome("", Null,
                     [f EXCEPT !.head[e.branch] = r, !.workTree = TreeOf(e, r)],
                     DbWrite(d, TreeOf(e, r)))}
             ELSE IF Len(e.commits) >= MaxCommits THEN {Fail("MergeConflictError", e, d)}
             ELSE LET m == MergeCommit(e, h, r)
                  IN {Outcome("", Null,
                        [f EXCEPT !.commits = Append(@, m),
                                  !.head[e.branch] = Len(e.commits) + 1,
                                  !.workTree = m.tree],
                        DbWrite(d, m.tree))})

\* ============================================================ processes
Idle ==
    [pc |-> "idle", kind |-> "", arg |-> "", force |-> FALSE, can |-> FALSE,
     buf |-> 0, flushes |-> 0, ret |-> "", clear |-> FALSE,
     mutated |-> FALSE, made |-> 0, fetched |-> 0,
     lbranch |-> "", lbranches |-> {}, lremote |-> {}, llog |-> <<>>]

IsIdle(p) == procs[p].pc = "idle"
HasFree == \E p \in Procs : IsIdle(p)
Free == CHOOSE p \in Procs : IsIdle(p) /\ \A q \in Procs : IsIdle(q) => p <= q
CanStart == started < MaxActions /\ HasFree

\* A new invocation of entry point `kind`, awaiting `pc`.
NewProc(kind, pc, arg, force) ==
    [Idle EXCEPT !.pc = pc, !.kind = kind, !.arg = arg, !.force = force]

\* ------------------------------------------------------------ observation
NoEv ==
    [kind |-> "", done |-> "none", err |-> "", report |-> "none",
     op |-> "none", arg |-> "", force |-> FALSE, can |-> FALSE, notify |-> FALSE,
     all |-> FALSE, depth |-> 0,
     ready |-> FALSE, buffered |-> FALSE,
     ended |-> FALSE, fault |-> "", endBuf |-> 0, endFlushes |-> 0, leaked |-> FALSE,
     mutated |-> FALSE, made |-> 0, fetched |-> 0]

\* The step of invocation `pr` in which operation `done` completed with `err`.
EvDone(pr, done, err) ==
    [NoEv EXCEPT !.kind = pr.kind, !.done = done, !.err = err, !.force = pr.force,
                 !.can = pr.can]

\* ... and in which `op` was invoked, with engine `e` and database `d`.
EvInvoke(evr, pr, op, e, d) ==
    [evr EXCEPT !.op = op, !.arg = pr.arg, !.force = pr.force, !.can = pr.can,
                !.ready = IsInitialized(e), !.buffered = pr.buf \in d.open,
                !.made = pr.made, !.fetched = pr.fetched]

\* ... or in which the invocation ended; `fault` names an error that left the
\* entry point uncaught.
EvEnd(evr, pr, d, fault) ==
    [evr EXCEPT !.ended = TRUE, !.fault = fault, !.endBuf = pr.buf,
                !.endFlushes = pr.flushes, !.leaked = pr.buf \in d.open,
                !.mutated = pr.mutated, !.made = pr.made]

\* ======================================================= GitSyncDropdown
\* props.gitRepository is the repository the workspace metadata points at.
GitRepository == meta.gitRepositoryId

isNotNullOrUndefined(v) == v # Null

\* Mutant: the cache is cleared without looking at the stored fields.
NeedsUpdateAlways(wm) == TRUE

NeedsUpdate(wm) ==
    \/ isNotNullOrUndefined(wm.cachedGitRepositoryBranch)
    \/ isNotNullOrUndefined(wm.cachedGitLastAuthor)
    \/ isNotNullOrUndefined(wm.cachedGitLastCommitTime)

Unconfigured(e, wm) == ~IsInitialized(e) \/ wm.gitRepositoryId = Null

ClearedFields(wm) ==
    [wm EXCEPT !.cachedGitRepositoryBranch = Null,
               !.cachedGitLastAuthor = Null,
               !.cachedGitLastCommitTime = Null]

\* Mutant: the author timestamp is stored as it is, in seconds.
CachedFieldsSeconds(wm, branch, log) ==
    [wm EXCEPT
       !.cachedGitRepositoryBranch = Some(branch),
       !.cachedGitLastAuthor = IF Len(log) > 0 THEN Some(log[1].commit.author.name) ELSE Null,
       !.cachedGitLastCommitTime =
           IF Len(log) > 0 THEN Some(log[1].commit.author.timestamp) ELSE Null]

\* The three cached fields computed from the branch and the log just read.
CachedFields(wm, branch, log) ==
    LET author == IF Len(log) > 0 THEN Some(log[1].commit.author) ELSE Null
    IN [wm EXCEPT
          !.cachedGitRepositoryBranch = Some(branch),
          !.cachedGitLastAuthor = IF author # Null THEN Some(author[1].name) ELSE Null,
          !.cachedGitLastCommitTime =
              IF author # Null THEN Some(author[1].timestamp * MsPerSecond) ELSE Null]

\* _refreshState after `await getOrCreateByParentId`: the unconfigured branch
\* clears the cache if needed and returns, else the engine is queried.
RefreshMeta(p) ==
    /\ procs[p].pc = "r_meta"
    /\ LET pr == procs[p]
           e0 == EvDone(pr, "getOrCreateByParentId", "")
       IN IF Unconfigured(eng, meta)
          THEN IF NeedsUpdate(meta)
               THEN /\ procs' = [procs EXCEPT ![p].pc = "r_clear"]
                    /\ ev' = EvInvoke(e0, pr, "updateByParentId", eng, db)
               ELSE /\ procs' = [procs EXCEPT ![p] = Idle]
                    /\ ev' = EvEnd(e0, pr, db, "")
          ELSE /\ procs' = [procs EXCEPT ![p].pc = "r_getBranch"]
               /\ ev' = EvInvoke(e0, pr, "getBranch", eng, db)
    /\ UNCHANGED <<eng, db, meta, entities, dstate, mstate, modal, staging, alert, started, envSteps>>

RefreshClear(p) ==
    /\ procs[p].pc = "r_clear"
    /\ meta' = ClearedFields(meta)
    /\ procs' = [procs EXCEPT ![p] = Idle]
    /\ ev' = EvEnd(EvDone(procs[p], "updateByParentId", ""), procs[p], db, "")
    /\ UNCHANGED <<eng, db, entities, dstate, mstate, modal, staging, alert, started, envSteps>>

\* A query of _refreshState completes: `store` keeps its value, `next` is the
\* query invoked after it.  An engine error leaves _refreshState uncaught.
RefreshQuery(p, pc, op, outcomes, next, nextOp) ==
    /\ procs[p].pc = pc
    /\ \E o \in outcomes :
         LET pr == procs[p]
         IN IF o.err # ""
            THEN /\ procs' = [procs EXCEPT ![p] = Idle]
                 /\ ev' = EvEnd(EvDone(pr, op, o.err), pr, db, o.err)
            ELSE LET nx == IF op = "getBranch" THEN [pr EXCEPT !.pc = next, !.lbranch = o.val]
                           ELSE [pr EXCEPT !.pc = next, !.lbranches = o.val]
                 IN /\ procs' = [procs EXCEPT ![p] = nx]
                    /\ ev' = EvInvoke(EvDone(pr, op, ""), nx, nextOp, eng, db)
    /\ UNCHANGED <<eng, db, meta, entities, dstate, mstate, modal, staging, alert, started, envSteps>>

RefreshGetBranch(p) ==
    RefreshQuery(p, "r_getBranch", "getBranch", GetBranch(eng, db), "r_listBranches", "listBranches")

RefreshListBranches(p) ==
    RefreshQuery(p, "r_listBranches", "listBranches", ListBranches(eng, db), "r_log", "log")

\* log() completes: setState({log, branch, branches}), then the cache write is issued.
RefreshLog(p) ==
    /\ procs[p].pc = "r_log"
    /\ \E o \in Log(eng, db) :
         LET pr == procs[p]
         IN IF o.err # ""
            THEN /\ procs' = [procs EXCEPT ![p] = Idle]
                 /\ ev' = EvEnd(EvDone(pr, "log", o.err), pr, db, o.err)
                 /\ UNCHANGED dstate
            ELSE LET nx == [pr EXCEPT !.pc = "r_write", !.llog = o.val]
                 IN /\ procs' = [procs EXCEPT ![p] = nx]
                    /\ dstate' = [dstate EXCEPT !.log = o.val, !.branch = pr.lbranch,
                                                !.branches = pr.lbranches]
                    /\ ev' = EvInvoke(EvDone(pr, "log", ""), nx, "updateByParentId", eng, db)
    /\ UNCHANGED <<eng, db, meta, entities, mstate, modal, staging, alert, started, envSteps>>

RefreshWrite(p) ==
    /\ procs[p].pc = "r_write"
    /\ meta' = CachedFields(meta, procs[p].lbranch, procs[p].llog)
    /\ procs' = [procs EXCEPT ![p] = Idle]
    /\ ev' = EvEnd(EvDone(procs[p], "updateByParentId", ""), procs[p], db, "")
    /\ UNCHANGED <<eng, db, entities, dstate, mstate, modal, staging, alert, started, envSteps>>

\* A fresh _refreshState invocation, awaiting getOrCreateByParentId.
StartRefresh(kind, mutated, e, d) ==
    LET pr == [NewProc(kind, "r_meta", "", FALSE) EXCEPT !.mutated = mutated]
    IN /\ procs' = [procs EXCEPT ![Free] = pr]
       /\ ev' = EvInvoke(EvDone(pr, "none", ""), pr, "getOrCreateByParentId", e, d)

\* render() offers Branches, the branch items, Commit, Push and Pull while the
\* engine is initialized.
DropdownShown == IsInitialized(eng)

\* The dropdown is opened: onOpen = _handleOpen awaits _refreshState.
HandleOpen ==
    /\ CanStart
    /\ started' = started + 1
    /\ StartRefresh("_handleOpen", FALSE, eng, db)
    /\ UNCHANGED <<eng, db, meta, entities, dstate, mstate, modal, staging, alert, envSteps>>

\* Click on Commit: showModal(GitStagingModal, {onCommit: _refreshState,
\* gitRepository}); the handler awaits nothing and returns.  A click while
\* the staging modal is shown calls showModal again and leaves it shown.
HandleCommit ==
    /\ DropdownShown
    /\ staging' = TRUE
    /\ LET pr == NewProc("_handleCommit", "idle", "", FALSE)
       IN ev' = EvEnd(EvDone(pr, "none", ""), pr, db, "")
    /\ UNCHANGED <<eng, db, meta, entities, dstate, mstate, modal, alert, procs, started, envSteps>>

\* ---------------------------------------------------------------- pull
\* Click on Pull: loadingPull is set, then the repository is required.
HandlePull ==
    /\ CanStart /\ DropdownShown
    /\ started' = started + 1
    /\ dstate' = [dstate EXCEPT !.loadingPull = TRUE]
    /\ LET pr == NewProc("_handlePull", "pull_buffer", "", FALSE)
       IN IF GitRepository = Null
          THEN /\ procs' = procs
               /\ ev' = EvEnd(EvDone(pr, "none", ""), pr, db, "Tried to pull without configuring git repo")
          ELSE /\ procs' = [procs EXCEPT ![Free] = pr]
               /\ ev' = EvInvoke(EvDone(pr, "none", ""), pr, "bufferChanges", eng, db)
    /\ UNCHANGED <<eng, db, meta, entities, mstate, modal, staging, alert, envSteps>>

\* bufferChanges() returned: the buffer id is kept and `op` is invoked.
Buffered(p, pc, next, op) ==
    /\ procs[p].pc = pc
    /\ db' = BufferChanges(db)
    /\ LET nx == [procs[p] EXCEPT !.pc = next, !.buf = db'.counter]
       IN /\ procs' = [procs EXCEPT ![p] = nx]
          /\ ev' = EvInvoke(EvDone(procs[p], "bufferChanges", ""), nx, op, eng, db')
    /\ UNCHANGED <<eng, meta, entities, dstate, mstate, modal, staging, alert, started, envSteps>>

\* The report an engine error is turned into inside a try/catch of the dropdown.
ShowError(err) == IF err = "" THEN "none" ELSE "showError"

\* flushChanges(bufferId, notify) is invoked by `pr`.
EvFlush(evr, pr, notify, e, d) ==
    [EvInvoke(evr, pr, "flushChanges", e, d) EXCEPT !.notify = notify]

PullBuffered(p) == Buffered(p, "pull_buffer", "pull", "pull")

\* vcs.pull() returned or threw; either way the buffer is flushed next.
PullDone(p) ==
    /\ procs[p].pc = "pull"
    /\ \E o \in Pull(eng, db) :
         /\ eng' = o.eng
         /\ db' = o.db
         /\ procs' = [procs EXCEPT ![p].pc = "pull_flush", ![p].mutated = (o.err = "")]
         /\ ev' = EvFlush([EvDone(procs[p], "pull", o.err) EXCEPT !.report = ShowError(o.err)],
                          procs[p], FALSE, o.eng, o.db)
    /\ UNCHANGED <<meta, entities, dstate, mstate, modal, staging, alert, started, envSteps>>

PullFlushed(p) ==
    /\ procs[p].pc = "pull_flush"
    /\ db' = FlushChanges(db, procs[p].buf)
    /\ dstate' = [dstate EXCEPT !.loadingPull = FALSE]
    /\ procs' = [procs EXCEPT ![p] = Idle]
    /\ ev' = EvEnd(EvDone(procs[p], "flushChanges", ""),
                   [procs[p] EXCEPT !.flushes = @ + 1], db', "")
    /\ UNCHANGED <<eng, meta, entities, mstate, modal, staging, alert, started, envSteps>>

\* ---------------------------------------------------------------- push
\* Mutant: the Push item forces by default.
DefaultForceForced == TRUE

\* The value of the `force` parameter when the Push item is clicked.
DefaultForce == FALSE

\* _handlePush(_e, force) up to its first await.
StartPush(force) ==
    /\ dstate' = [dstate EXCEPT !.loadingPush = TRUE]
    /\ LET pr == NewProc("_handlePush", "canPush", "", force)
       IN IF GitRepository = Null
          THEN /\ procs' = procs
               /\ ev' = EvEnd(EvDone(pr, "none", ""), pr, db, "Tried to push without configuring git repo")
          ELSE /\ procs' = [procs EXCEPT ![Free] = pr]
               /\ ev' = EvInvoke(EvDone(pr, "none", ""), pr, "canPush", eng, db)

\* The Push item is rendered only when the log in the state is not empty.
PushShown == DropdownShown /\ Len(dstate.log) > 0

HandlePush ==
    /\ CanStart /\ PushShown
    /\ started' = started + 1
    /\ StartPush(DefaultForce)
    /\ UNCHANGED <<eng, db, meta, entities, mstate, modal, staging, alert, envSteps>>

\* Mutant: the result of canPush is ignored.
PushProceedsAlways(can) == TRUE

\* Whether _handlePush goes on to push after canPush returned `can`.
PushProceeds(can) == can

\* canPush() returned or threw.
CanPushDone(p) ==
    /\ procs[p].pc = "canPush"
    /\ \E o \in CanPush(eng, db) :
         LET pr == procs[p]
             e0 == EvDone(pr, "canPush", o.err)
         IN IF o.err # ""
            THEN /\ dstate' = [dstate EXCEPT !.loadingPush = FALSE]
                 /\ procs' = [procs EXCEPT ![p] = Idle]
                 /\ alert' = alert
                 /\ ev' = EvEnd([e0 EXCEPT !.report = "showError"], pr, db, "")
            ELSE IF ~PushProceeds(o.val)
            THEN /\ dstate' = [dstate EXCEPT !.loadingPush = FALSE]
                 /\ procs' = [procs EXCEPT ![p] = Idle]
                 /\ alert' = "Push Skipped"
                 /\ ev' = EvEnd([e0 EXCEPT !.report = "Push Skipped"], pr, db, "")
            ELSE /\ dstate' = dstate
                 /\ procs' = [procs EXCEPT ![p].pc = "push_buffer", ![p].can = o.val]
                 /\ alert' = alert
                 /\ ev' = EvInvoke(e0, [pr EXCEPT !.can = o.val], "bufferChanges", eng, db)
    /\ UNCHANGED <<eng, db, meta, entities, mstate, modal, staging, started, envSteps>>

PushBuffered(p) == Buffered(p, "push_buffer", "push", "push")

\* What the catch block of _handlePush reports for an error of vcs.push.
PushReport(err) ==
    IF err = "" THEN "none"
    ELSE IF err = "PushRejectedError" THEN "Push Rejected"
    ELSE "showError"

\* vcs.push() returned or threw; either way the buffer is flushed next.
PushDone(p) ==
    /\ procs[p].pc = "push"
    /\ \E o \in Push(eng, db, procs[p].force) :
         /\ eng' = o.eng
         /\ db' = o.db
         /\ alert' = IF PushReport(o.err) = "Push Rejected" THEN "Push Rejected" ELSE alert
         /\ procs' = [procs EXCEPT ![p].pc = "push_flush", ![p].mutated = (o.err = "")]
         /\ ev' = EvFlush([EvDone(procs[p], "push", o.err) EXCEPT !.report = PushReport(o.err)],
                          procs[p], FALSE, o.eng, o.db)
    /\ UNCHANGED <<meta, entities, dstate, mstate, modal, staging, started, envSteps>>

PushFlushed(p) ==
    /\ procs[p].pc = "push_flush"
    /\ db' = FlushChanges(db, procs[p].buf)
    /\ dstate' = [dstate EXCEPT !.loadingPush = FALSE]
    /\ procs' = [procs EXCEPT ![p] = Idle]
    /\ ev' = EvEnd(EvDone(procs[p], "flushChanges", ""),
                   [procs[p] EXCEPT !.flushes = @ + 1], db', "")
    /\ UNCHANGED <<eng, meta, entities, mstate, modal, staging, alert, started, envSteps>>

\* The user confirms the 'Push Rejected' alert: onConfirm calls _handlePush(null, true).
AlertConfirm ==
    /\ CanStart /\ alert = "Push Rejected"
    /\ started' = started + 1
    /\ alert' = "none"
    /\ StartPush(TRUE)
    /\ UNCHANGED <<eng, db, meta, entities, mstate, modal, staging, envSteps>>

\* The user cancels or closes the alert.
AlertDismiss ==
    /\ alert # "none"
    /\ alert' = "none"
    /\ ev' = NoEv
    /\ UNCHANGED <<eng, db, meta, entities, dstate, mstate, modal, staging, procs, started, envSteps>>

\* ------------------------------------------------------- branch switch
HandleCheckoutBranch(b) ==
    /\ CanStart /\ DropdownShown
    /\ b \in dstate.branches /\ b # dstate.branch
    /\ started' = started + 1
    /\ LET pr == NewProc("_handleCheckoutBranch", "co_buffer", b, FALSE)
       IN /\ procs' = [procs EXCEPT ![Free] = pr]
          /\ ev' = EvInvoke(EvDone(pr, "none", ""), pr, "bufferChanges", eng, db)
    /\ UNCHANGED <<eng, db, meta, entities, dstate, mstate, modal, staging, alert, envSteps>>

CheckoutBuffered(p) == Buffered(p, "co_buffer", "co_checkout", "checkout")

\* vcs.checkout() returned or threw; either way the buffer is flushed next.
CheckoutDone(p) ==
    /\ procs[p].pc = "co_checkout"
    /\ \E o \in Checkout(eng, db, procs[p].arg) :
         /\ eng' = o.eng
         /\ db' = o.db
         /\ procs' = [procs EXCEPT ![p].pc = "co_flush", ![p].mutated = (o.err = "")]
         /\ ev' = EvFlush([EvDone(procs[p], "checkout", o.err) EXCEPT !.report = ShowError(o.err)],
                          procs[p], TRUE, o.eng, o.db)
    /\ UNCHANGED <<meta, entities, dstate, mstate, modal, staging, alert, started, envSteps>>

CheckoutFlushed(p) ==
    /\ procs[p].pc = "co_flush"
    /\ db' = FlushChanges(db, procs[p].buf)
    /\ LET nx == [procs[p] EXCEPT !.pc = "co_init", !.flushes = @ + 1]
       IN /\ procs' = [procs EXCEPT ![p] = nx]
          /\ ev' = EvInvoke(EvDone(procs[p], "flushChanges", ""), nx,
                            "handleInitializeEntities", eng, db')
    /\ UNCHANGED <<eng, meta, entities, dstate, mstate, modal, staging, alert, started, envSteps>>

\* handleInitializeEntities() rebuilt the indexes; _refreshState is called.
CheckoutInitialized(p) ==
    /\ procs[p].pc = "co_init"
    /\ entities' = db.tree
    /\ LET nx == [procs[p] EXCEPT !.pc = "r_meta"]
       IN /\ procs' = [procs EXCEPT ![p] = nx]
          /\ ev' = EvInvoke(EvDone(procs[p], "handleInitializeEntities", ""), nx,
                            "getOrCreateByParentId", eng, db)
    /\ UNCHANGED <<eng, db, meta, dstate, mstate, modal, staging, alert, started, envSteps>>

\* ================================================= GitBranchesModalClass
\* fetch(fetchAllBranches, depth, credentials) is invoked by `pr`.
EvFetch(evr, pr, all, depth, e, d) ==
    [EvInvoke(evr, pr, "fetch", e, d) EXCEPT !.all = all, !.depth = depth]

\* An error reaches the end of a modal handler: _errorHandler stores its
\* message in the state; show() has no handler around it.
ModalCatches(kind) == kind # "show"

ModalFail(p, op, err, d) ==
    LET pr == procs[p]
    IN /\ procs' = [procs EXCEPT ![p] = Idle]
       /\ IF ModalCatches(pr.kind)
          THEN /\ mstate' = [mstate EXCEPT !.error = err]
               /\ ev' = EvEnd([EvDone(pr, op, err) EXCEPT !.report = "modalError"], pr, d, "")
          ELSE /\ mstate' = mstate
               /\ ev' = EvEnd(EvDone(pr, op, err), pr, d, err)

\* The modal's _refreshState is called by `pr`: getBranch is invoked at once.
ModalRefresh(p, pr, done, clear, ret, e, d) ==
    LET nx == [pr EXCEPT !.pc = "m_getBranch", !.clear = clear, !.ret = ret]
    IN /\ procs' = [procs EXCEPT ![p] = nx]
       /\ ev' = EvInvoke(EvDone(pr, done, ""), nx, "getBranch", e, d)

MGetBranch(p) ==
    /\ procs[p].pc = "m_getBranch"
    /\ \E o \in GetBranch(eng, db) :
         IF o.err # "" THEN ModalFail(p, "getBranch", o.err, db)
         ELSE LET nx == [procs[p] EXCEPT !.pc = "m_listBranches", !.lbranch = o.val]
              IN /\ procs' = [procs EXCEPT ![p] = nx]
                 /\ ev' = EvInvoke(EvDone(procs[p], "getBranch", ""), nx, "listBranches", eng, db)
                 /\ mstate' = mstate
    /\ UNCHANGED <<eng, db, meta, entities, dstate, modal, staging, alert, started, envSteps>>

MListBranches(p) ==
    /\ procs[p].pc = "m_listBranches"
    /\ \E o \in ListBranches(eng, db) :
         IF o.err # "" THEN ModalFail(p, "listBranches", o.err, db)
         ELSE LET nx == [procs[p] EXCEPT !.pc = "m_listRemote", !.lbranches = o.val]
              IN /\ procs' = [procs EXCEPT ![p] = nx]
                 /\ ev' = EvInvoke(EvDone(procs[p], "listBranches", ""), nx,
                                   "listRemoteBranches", eng, db)
                 /\ mstate' = mstate
    /\ UNCHANGED <<eng, db, meta, entities, dstate, modal, staging, alert, started, envSteps>>

\* setState({branch, branches, remoteBranches, ...newState})
ModalState(ms, pr, remote) ==
    [ms EXCEPT !.branch = pr.lbranch, !.branches = pr.lbranches,
               !.remoteBranches = remote,
               !.newBranchName = IF pr.clear THEN "" ELSE @]

\* listRemoteBranches() returned: the state is set and _refreshState returns
\* to its caller; show() goes on to open the modal and fetch the remotes.
MListRemote(p) ==
    /\ procs[p].pc = "m_listRemote"
    /\ \E o \in ListRemoteBranches(eng, db) :
         LET pr == procs[p]
         IN IF o.err # "" THEN ModalFail(p, "listRemoteBranches", o.err, db) /\ modal' = modal
            ELSE /\ mstate' = ModalState(mstate, pr, o.val)
                 /\ IF pr.ret = "show"
                    THEN /\ modal' = [open |-> TRUE, onHide |-> TRUE]
                         /\ procs' = [procs EXCEPT ![p].pc = "show_fetch"]
                         /\ ev' = EvFetch(EvDone(pr, "listRemoteBranches", ""), pr,
                                          FALSE, ShallowDepth, eng, db)
                    ELSE /\ modal' = modal
                         /\ procs' = [procs EXCEPT ![p] = Idle]
                         /\ ev' = EvEnd(EvDone(pr, "listRemoteBranches", ""), pr, db, "")
    /\ UNCHANGED <<eng, db, meta, entities, dstate, staging, alert, started, envSteps>>

\* A modal handler starts: `op` is invoked and awaited at `pc`.
StartModal(kind, pc, arg, op) ==
    LET pr == NewProc(kind, pc, arg, FALSE)
    IN /\ procs' = [procs EXCEPT ![Free] = pr]
       /\ ev' = EvInvoke(EvDone(pr, "none", ""), pr, op, eng, db)

\* Click on Branches: showModal(GitBranchesModal, {onHide: _refreshState}).
HandleManageBranches ==
    /\ CanStart /\ DropdownShown
    /\ started' = started + 1
    /\ LET pr == NewProc("show", "m_getBranch", "", FALSE)
       IN ModalRefresh(Free, pr, "none", TRUE, "show", eng, db)
    /\ UNCHANGED <<eng, db, meta, entities, dstate, mstate, modal, staging, alert, envSteps>>

\* show(): the fetch of the remotes returned or threw; _refreshState again.
ShowFetchDone(p) ==
    /\ procs[p].pc = "show_fetch"
    /\ \E o \in Fetch(eng, db) :
         /\ eng' = o.eng
         /\ IF o.err # "" THEN ModalFail(p, "fetch", o.err, db)
            ELSE /\ ModalRefresh(p, [procs[p] EXCEPT !.fetched = ShallowDepth], "fetch", FALSE,
                              "end", o.eng, db)
                 /\ mstate' = mstate
    /\ UNCHANGED <<db, meta, entities, dstate, modal, staging, alert, started, envSteps>>

\* The modal is closed: _handleHide calls the onHide it was shown with.
ModalHide ==
    /\ modal.open /\ CanStart
    /\ started' = started + 1
    /\ modal' = [modal EXCEPT !.open = FALSE]
    /\ StartRefresh("onHide", FALSE, eng, db)
    /\ UNCHANGED <<eng, db, meta, entities, dstate, mstate, staging, alert, envSteps>>

_updateNewBranchName(n) ==
    /\ modal.open /\ mstate.newBranchName # n
    /\ mstate' = [mstate EXCEPT !.newBranchName = n]
    /\ ev' = NoEv
    /\ UNCHANGED <<eng, db, meta, entities, dstate, modal, staging, alert, procs, started, envSteps>>

HandleClearError ==
    /\ modal.open /\ mstate.error # ""
    /\ mstate' = [mstate EXCEPT !.error = ""]
    /\ ev' = NoEv
    /\ UNCHANGED <<eng, db, meta, entities, dstate, modal, staging, alert, procs, started, envSteps>>

\* Submit of the create form: vcs.checkout(newBranchName), with no buffer.
HandleCreate ==
    /\ CanStart /\ modal.open /\ mstate.newBranchName # ""
    /\ started' = started + 1
    /\ StartModal("_handleCreate", "create_checkout", mstate.newBranchName, "checkout")
    /\ UNCHANGED <<eng, db, meta, entities, dstate, mstate, modal, staging, alert, envSteps>>

CreateDone(p) ==
    /\ procs[p].pc = "create_checkout"
    /\ \E o \in Checkout(eng, db, procs[p].arg) :
         /\ eng' = o.eng
         /\ db' = o.db
         /\ IF o.err # "" THEN ModalFail(p, "checkout", o.err, o.db)
            ELSE /\ ModalRefresh(p, [procs[p] EXCEPT !.mutated = TRUE], "checkout", TRUE, "end",
                              o.eng, o.db)
                 /\ mstate' = mstate
    /\ UNCHANGED <<meta, entities, dstate, modal, staging, alert, started, envSteps>>

\* The rows of the local branches other than the current one carry the
\* Merge, Delete and Checkout buttons.
OtherBranch(b) == modal.open /\ b \in mstate.branches /\ b # mstate.branch

HandleMerge(b) ==
    /\ CanStart /\ OtherBranch(b)
    /\ started' = started + 1
    /\ StartModal("_handleMerge", "merge", b, "merge")
    /\ UNCHANGED <<eng, db, meta, entities, dstate, mstate, modal, staging, alert, envSteps>>

\* The branch _handleMerge checks out after vcs.merge(branch) succeeded.
MergeCheckoutBranch(pr) == pr.arg

\* Mutant: _handleCheckout is called whether or not the merge threw.
MergeProceedsAlways(err) == TRUE

\* Whether _handleMerge goes on to _handleCheckout after the awaited merge
\* completed with `err`.
MergeProceeds(err) == err = ""

\* vcs.merge() returned: _handleCheckout(branch) follows; or it threw.
MergeDone(p) ==
    /\ procs[p].pc = "merge"
    /\ \E o \in Merge(eng, db, procs[p].arg) :
         /\ eng' = o.eng
         /\ IF ~MergeProceeds(o.err) THEN ModalFail(p, "merge", o.err, db)
            ELSE LET nx == [procs[p] EXCEPT !.pc = "mco_buffer", !.arg = MergeCheckoutBranch(procs[p]),
                                           !.mutated = (o.err = ""),
                                           !.made = IF o.err = "" THEN Len(o.eng.commits) ELSE 0]
                 IN /\ procs' = [procs EXCEPT ![p] = nx]
                    /\ ev' = EvInvoke(EvDone(procs[p], "merge", o.err), nx, "bufferChanges",
                                      o.eng, db)
                    /\ mstate' = mstate
    /\ UNCHANGED <<db, meta, entities, dstate, modal, staging, alert, started, envSteps>>

HandleDelete(b) ==
    /\ CanStart /\ OtherBranch(b)
    /\ started' = started + 1
    /\ StartModal("_handleDelete", "delete", b, "deleteBranch")
    /\ UNCHANGED <<eng, db, meta, entities, dstate, mstate, modal, staging, alert, envSteps>>

DeleteDone(p) ==
    /\ procs[p].pc = "delete"
    /\ \E o \in DeleteBranch(eng, db, procs[p].arg) :
         /\ eng' = o.eng
         /\ IF o.err # "" THEN ModalFail(p, "deleteBranch", o.err, db)
            ELSE /\ ModalRefresh(p, [procs[p] EXCEPT !.mutated = TRUE], "deleteBranch", FALSE, "end",
                              o.eng, db)
                 /\ mstate' = mstate
    /\ UNCHANGED <<db, meta, entities, dstate, modal, staging, alert, started, envSteps>>

\* The remote branches with no local branch carry a Checkout button.
RemoteOnly(b) == modal.open /\ b \in mstate.remoteBranches \ mstate.branches

HandleRemoteCheckout(b) ==
    /\ CanStart /\ RemoteOnly(b)
    /\ started' = started + 1
    /\ LET pr == NewProc("_handleRemoteCheckout", "remote_fetch", b, FALSE)
       IN /\ procs' = [procs EXCEPT ![Free] = pr]
          /\ ev' = EvFetch(EvDone(pr, "none", ""), pr, TRUE, DeepDepth, eng, db)
    /\ UNCHANGED <<eng, db, meta, entities, dstate, mstate, modal, staging, alert, envSteps>>

\* Mutant: _handleCheckout is called whether or not the fetch threw.
RemoteCheckoutProceedsAlways(err) == TRUE

\* Whether _handleRemoteCheckout goes on to _handleCheckout after the awaited
\* fetch completed with `err`.
RemoteCheckoutProceeds(err) == err = ""

\* vcs.fetch(true, 20, ...) returned: _handleCheckout(branch) follows; or it threw.
RemoteFetchDone(p) ==
    /\ procs[p].pc = "remote_fetch"
    /\ \E o \in Fetch(eng, db) :
         /\ eng' = o.eng
         /\ IF ~RemoteCheckoutProceeds(o.err) THEN ModalFail(p, "fetch", o.err, db)
            ELSE LET nx == [procs[p] EXCEPT !.pc = "mco_buffer",
                                           !.fetched = IF o.err = "" THEN DeepDepth ELSE @]
                 IN /\ procs' = [procs EXCEPT ![p] = nx]
                    /\ ev' = EvInvoke(EvDone(procs[p], "fetch", o.err), nx, "bufferChanges",
                                      o.eng, db)
                    /\ mstate' = mstate
    /\ UNCHANGED <<db, meta, entities, dstate, modal, staging, alert, started, envSteps>>

HandleCheckout(b) ==
    /\ CanStart /\ OtherBranch(b)
    /\ started' = started + 1
    /\ StartModal("_handleCheckout", "mco_buffer", b, "bufferChanges")
    /\ UNCHANGED <<eng, db, meta, entities, dstate, mstate, modal, staging, alert, envSteps>>

MCheckoutBuffered(p) == Buffered(p, "mco_buffer", "mco_checkout", "checkout")

\* _handleCheckout: vcs.checkout() returned and the flush follows; or it threw
\* and _errorHandler takes over.
MCheckoutDone(p) ==
    /\ procs[p].pc = "mco_checkout"
    /\ \E o \in Checkout(eng, db, procs[p].arg) :
         /\ eng' = o.eng
         /\ db' = o.db
         /\ IF o.err # "" THEN ModalFail(p, "checkout", o.err, o.db)
            ELSE /\ procs' = [procs EXCEPT ![p].pc = "mco_flush", ![p].mutated = TRUE]
                 /\ ev' = EvFlush(EvDone(procs[p], "checkout", ""), procs[p], TRUE, o.eng, o.db)
                 /\ mstate' = mstate
    /\ UNCHANGED <<meta, entities, dstate, modal, staging, alert, started, envSteps>>

MCheckoutFlushed(p) ==
    /\ procs[p].pc = "mco_flush"
    /\ db' = FlushChanges(db, procs[p].buf)
    /\ LET nx == [procs[p] EXCEPT !.pc = "mco_init", !.flushes = @ + 1]
       IN /\ procs' = [procs EXCEPT ![p] = nx]
          /\ ev' = EvInvoke(EvDone(procs[p], "flushChanges", ""), nx,
                            "handleInitializeEntities", eng, db')
    /\ UNCHANGED <<eng, meta, entities, dstate, mstate, modal, staging, alert, started, envSteps>>

MCheckoutInitialized(p) ==
    /\ procs[p].pc = "mco_init"
    /\ entities' = db.tree
    /\ ModalRefresh(p, procs[p], "handleInitializeEntities", FALSE, "end", eng, db)
    /\ UNCHANGED <<eng, db, meta, dstate, mstate, modal, staging, alert, started, envSteps>>

\* ============================================================ environment
\* The commit the staging flow creates: a new commit on the current branch.
LocalCommit(e) ==
    LET k == Len(e.commits) + 1
        c == Commit({e.head[e.branch]} \ {0}, e.workTree \cup {k}, "alice", k)
    IN [e EXCEPT !.commits = Append(@, c), !.head[e.branch] = k, !.workTree = c.tree]

\* The staging flow completed: the commit is made, the staging modal closes
\* and the onCommit it was shown with (_refreshState) is called.
StagingCommit ==
    /\ staging /\ CanStart
    /\ Len(eng.commits) < MaxCommits
    /\ started' = started + 1
    /\ staging' = FALSE
    /\ eng' = LocalCommit(eng)
    /\ db' = DbWrite(db, eng'.workTree)
    /\ StartRefresh("onCommit", TRUE, eng', db')
    /\ UNCHANGED <<meta, entities, dstate, mstate, modal, alert, envSteps>>

\* Sync is disabled for the workspace: the metadata loses its repository id,
\* the engine its repository, or both.
Unconfigure(dropId, dropEngine) ==
    /\ envSteps < MaxEnv
    /\ dropId \/ dropEngine
    /\ dropId => meta.gitRepositoryId # Null
    /\ dropEngine => IsInitialized(eng)
    /\ envSteps' = envSteps + 1
    /\ meta' = IF dropId THEN [meta EXCEPT !.gitRepositoryId = Null] ELSE meta
    /\ eng' = IF dropEngine THEN [eng EXCEPT !.initialized = FALSE] ELSE eng
    /\ ev' = NoEv
    /\ UNCHANGED <<db, entities, dstate, mstate, modal, staging, alert, procs, started>>

\* Sync is configured: the repository is bound and its object store opened.
Configure ==
    /\ envSteps < MaxEnv
    /\ Unconfigured(eng, meta)
    /\ envSteps' = envSteps + 1
    /\ meta' = [meta EXCEPT !.gitRepositoryId = Some("repo")]
    /\ eng' = [eng EXCEPT !.initialized = TRUE]
    /\ ev' = NoEv
    /\ UNCHANGED <<db, entities, dstate, mstate, modal, staging, alert, procs, started>>

\* Somebody else pushes a commit to branch b of the remote; the first push to
\* a branch creates it.
RemoteAdvance(b) ==
    /\ envSteps < MaxEnv
    /\ Len(eng.commits) < MaxCommits
    /\ envSteps' = envSteps + 1
    /\ LET k == Len(eng.commits) + 1
           c == Commit({eng.remote[b]} \ {0}, TreeOf(eng, eng.remote[b]) \cup {k}, "bob", k)
       IN eng' = [eng EXCEPT !.commits = Append(@, c), !.remote[b] = k]
    /\ ev' = NoEv
    /\ UNCHANGED <<db, meta, entities, dstate, mstate, modal, staging, alert, procs, started>>

\* ================================================================== Init
NoHeads == [b \in AllBranches |-> 0]

\* A repository with no commits.
EmptyRepo ==
    [initialized |-> TRUE, branch |-> "main", branches |-> {"main"},
     head |-> NoHeads, remote |-> NoHeads, refs |-> NoHeads,
     commits |-> <<>>, workTree |-> {}]

\* main and feature have diverged from commit 1; the remote also has hotfix,
\* which was not fetched yet, and is one commit behind on main.
DivergedRepo ==
    [initialized |-> TRUE, branch |-> "main", branches |-> {"main", "feature"},
     head |-> [NoHeads EXCEPT !["main"] = 3, !["feature"] = 2],
     remote |-> [NoHeads EXCEPT !["main"] = 1, !["feature"] = 2, !["hotfix"] = 1],
     refs |-> [NoHeads EXCEPT !["main"] = 1, !["feature"] = 2],
     commits |-> <<Commit({}, {1}, "alice", 1), Commit({1}, {1, 2}, "bob", 2),
                   Commit({1}, {1, 3}, "alice", 3)>>,
     workTree |-> {1, 3}]

InitialEngines ==
    {EmptyRepo, DivergedRepo, [EmptyRepo EXCEPT !.initialized = FALSE]}

Init ==
    /\ eng \in InitialEngines
    /\ db = [tree |-> eng.workTree, queue |-> Null, open |-> {}, counter |-> 0]
    /\ meta = [gitRepositoryId |-> IF eng.initialized THEN Some("repo") ELSE Null,
               cachedGitRepositoryBranch |-> Null, cachedGitLastAuthor |-> Null,
               cachedGitLastCommitTime |-> Null]
    /\ entities = eng.workTree
    /\ dstate = [initializing |-> FALSE, loadingPush |-> FALSE, loadingPull |-> FALSE,
                 log |-> <<>>, branch |-> "", branches |-> {}]
    /\ mstate = [error |-> "", branch |-> "??", branches |-> {}, remoteBranches |-> {},
                 newBranchName |-> ""]
    /\ modal = [open |-> FALSE, onHide |-> FALSE]
    /\ staging = FALSE
    /\ alert = "none"
    \* componentDidMount has called _refreshState
    /\ procs = [p \in Procs |-> IF p = 1
                                THEN NewProc("componentDidMount", "r_meta", "", FALSE)
                                ELSE Idle]
    /\ started = 0
    /\ envSteps = 0
    /\ ev = EvInvoke(EvDone(procs[1], "none", ""), procs[1], "getOrCreateByParentId", eng, db)

Next ==
    \/ HandleOpen
    \/ HandlePull
    \/ HandlePush
    \/ AlertConfirm
    \/ AlertDismiss
    \/ HandleCommit
    \/ StagingCommit
    \/ HandleManageBranches
    \/ ModalHide
    \/ HandleCreate
    \/ HandleClearError
    \/ Configure
    \/ \E b \in AllBranches :
         \/ HandleCheckoutBranch(b)
         \/ _updateNewBranchName(b)
         \/ HandleMerge(b)
         \/ HandleDelete(b)
         \/ HandleRemoteCheckout(b)
         \/ HandleCheckout(b)
         \/ RemoteAdvance(b)
    \/ \E i, e \in BOOLEAN : Unconfigure(i, e)
    \/ \E p \in Procs :
         \/ RefreshMeta(p) \/ RefreshClear(p) \/ RefreshGetBranch(p)
         \/ RefreshListBranches(p) \/ RefreshLog(p) \/ RefreshWrite(p)
         \/ PullBuffered(p) \/ PullDone(p) \/ PullFlushed(p)
         \/ CanPushDone(p) \/ PushBuffered(p) \/ PushDone(p) \/ PushFlushed(p)
         \/ CheckoutBuffered(p) \/ CheckoutDone(p) \/ CheckoutFlushed(p)
         \/ CheckoutInitialized(p)
         \/ MGetBranch(p) \/ MListBranches(p) \/ MListRemote(p) \/ ShowFetchDone(p)
         \/ CreateDone(p) \/ MergeDone(p) \/ DeleteDone(p) \/ RemoteFetchDone(p)
         \/ MCheckoutBuffered(p) \/ MCheckoutDone(p) \/ MCheckoutFlushed(p)
         \/ MCheckoutInitialized(p)

Spec == Init /\ [][Next]_vars

\* ------------------------------------------------- the dropdown's refresh
\* _refreshState with everything that calls it (componentDidMount,
\* _handleOpen, _handleCheckoutBranch, the staging modal's onCommit and the
\* branches modal's onHide, with show() that opens that modal) and the
\* configuration changes that decide which of its branches runs.
NextRefresh ==
    \/ HandleOpen
    \/ HandleCommit
    \/ StagingCommit
    \/ HandleManageBranches
    \/ ModalHide
    \/ Configure
    \/ \E b \in AllBranches : HandleCheckoutBranch(b)
    \/ \E i, e \in BOOLEAN : Unconfigure(i, e)
    \/ \E p \in Procs :
         \/ RefreshMeta(p) \/ RefreshClear(p) \/ RefreshGetBranch(p)
         \/ RefreshListBranches(p) \/ RefreshLog(p) \/ RefreshWrite(p)
         \/ CheckoutBuffered(p) \/ CheckoutDone(p) \/ CheckoutFlushed(p)
         \/ CheckoutInitialized(p)
         \/ MGetBranch(p) \/ MListBranches(p) \/ MListRemote(p) \/ ShowFetchDone(p)

SpecRefresh == Init /\ [][NextRefresh]_vars

\* ================================================================ claims
EngineOps ==
    {"getBranch", "listBranches", "listRemoteBranches", "log", "checkout", "merge",
     "deleteBranch", "canPush", "push", "pull", "fetch"}

EngineErrors ==
    {"EngineUninitializedError", "EngineError", "NetworkError", "PushRejectedError",
     "MergeConflictError", "PreconditionError"}

\* C1: an action that opened a transaction buffer has flushed it exactly once
\* when it ends, whatever the exit path, and leaves no buffer open.
C1_BufferFlushedOnEveryExit ==
    (ev.ended /\ ev.endBuf # 0) => (ev.endFlushes = 1 /\ ~ev.leaked)

\* C2: no engine or network error leaves an orchestrator entry point uncaught.
C2_NoUnhandledEngineError == ev.fault \notin EngineErrors

\* C3: every engine.checkout is invoked by an action that holds an open buffer.
C3_CheckoutInsideBuffer == ev.op = "checkout" => ev.buffered

\* C4: an action whose engine operation succeeded ends with the dropdown's
\* _refreshState, which rewrites the metadata cache.
C4_RefreshAfterEveryMutation ==
    (ev.ended /\ ev.mutated /\ ev.fault = "")
        => ev.done \in {"updateByParentId", "getOrCreateByParentId"}

\* C5: in an unconfigured state the three cached fields are null.
C5_CacheNullWhenUnconfigured == Unconfigured(eng, meta) => ~NeedsUpdate(meta)

\* C6: at most one push, pull, canPush or checkout is in progress at any time.
SyncPcs == {"pull", "push", "canPush", "co_checkout", "mco_checkout", "create_checkout"}
InSync == {p \in Procs : procs[p].pc \in SyncPcs}
C6_SyncActionsSerialized == Cardinality(InSync) <= 1

\* C7: a _handlePush invocation with force=true starts only when the user
\* confirms the 'Push Rejected' alert; that alert is shown only when a push
\* without force failed with PushRejectedError; and no step that handled a
\* failure invokes push, pull, fetch or canPush again.
C7_ForceStartsFromConfirm ==
    \A p \in Procs :
        (procs'[p].force /\ ~procs[p].force) => (alert = "Push Rejected" /\ alert' = "none")
C7_AlertAfterRejectedPush ==
    /\ ev.report = "Push Rejected"
          => (ev.done = "push" /\ ev.err = "PushRejectedError" /\ ~ev.force)
    /\ (ev.op = "push" /\ ev.force) => ev.kind = "_handlePush"
    /\ ev.err # "" => ev.op \notin {"push", "pull", "fetch", "canPush"}
C7_ForcePushOnlyOnConfirm ==
    [][C7_ForceStartsFromConfirm]_vars /\ []C7_AlertAfterRejectedPush

\* C7 witness: a push with force=true is invoked.
C7_Witness == ev.op = "push" /\ ev.force

\* C8: when a merge action has run to its end (merge and the follow-up
\* checkout succeeded), the working tree and the database hold the tree of
\* the merge commit it created.
C8_MergeResultMaterialized ==
    (ev.ended /\ ev.kind = "_handleMerge" /\ ev.made # 0 /\ ev.done = "listRemoteBranches"
       /\ ev.err = "")
        => (eng.workTree = TreeOf(eng, ev.made) /\ db.tree = TreeOf(eng, ev.made))

\* C9: every engine operation other than isInitialized is invoked while the
\* engine is initialized.
C9_EngineCallsOnlyWhenReady == ev.op \in EngineOps => ev.ready

\* C10: when canPush returned false or threw, _handlePush ends in that step
\* with a report, without a buffer, without invoking anything and with
\* loadingPush false, and that step leaves the engine (local and remote), the
\* database, the workspace metadata and the entities unchanged; push is
\* invoked only by an invocation whose canPush returned true.
C10_SkipStops ==
    /\ (ev.done = "canPush" /\ (ev.err # "" \/ ~ev.can))
          => /\ ev.ended /\ ev.op = "none" /\ ev.endBuf = 0
             /\ ev.report = (IF ev.err # "" THEN "showError" ELSE "Push Skipped")
             /\ ~dstate.loadingPush
    /\ ev.op = "push" => ev.can
C10_SkipLeavesStateUnchanged ==
    (ev'.done = "canPush" /\ (ev'.err # "" \/ ~ev'.can))
        => UNCHANGED <<eng, db, meta, entities>>
C10_PushOnlyAfterCanPush ==
    []C10_SkipStops /\ [][C10_SkipLeavesStateUnchanged]_vars

\* C10 witness: canPush returned false and the push was skipped.
C10_Witness == ev.done = "canPush" /\ ev.err = "" /\ ~ev.can /\ ev.ended

\* C11: a Checkout-branch action, from the dropdown or from the modal, invokes
\* bufferChanges, then checkout inside the buffer, then flushChanges with
\* notify=true, then the entity re-initialization, then a refresh; a failed
\* checkout is reported and the flush still follows it.
C11_CheckoutKinds == {"_handleCheckoutBranch", "_handleCheckout"}
C11_CheckoutSequence ==
    ev.kind \in C11_CheckoutKinds =>
        /\ ev.done = "none" => ev.op = "bufferChanges"
        /\ ev.done = "bufferChanges" => (ev.op = "checkout" /\ ev.buffered)
        /\ ev.done = "checkout" =>
              /\ ev.op = "flushChanges" /\ ev.notify
              /\ ev.err # "" => ev.report # "none"
        /\ ev.done = "flushChanges" => ev.op = "handleInitializeEntities"
        /\ ev.done = "handleInitializeEntities" => ev.op \in {"getOrCreateByParentId", "getBranch"}

\* C12: _handleRemoteCheckout starts with fetch(true, 20); a buffer is opened
\* and checkout invoked only after that fetch returned; when the fetch threw
\* the handler ends at once, without a buffer and without any further call,
\* and the error is in the modal's error state.
C12_FetchBeforeRemoteCheckout ==
    ev.kind = "_handleRemoteCheckout" =>
        /\ ev.done = "none" => (ev.op = "fetch" /\ ev.all /\ ev.depth = 20)
        /\ (ev.done = "fetch" /\ ev.err # "") =>
              /\ ev.ended /\ ev.op = "none" /\ ev.endBuf = 0
              /\ ev.report = "modalError" /\ mstate.error = ev.err
        /\ (ev.done = "fetch" /\ ev.err = "") => ev.op = "bufferChanges"
        /\ ev.op = "bufferChanges" => (ev.done = "fetch" /\ ev.err = "")
        /\ ev.op = "checkout" => (ev.done = "bufferChanges" /\ ev.buffered /\ ev.fetched = 20)

\* C12 witness: the fetch of a remote checkout failed and the handler ended.
C12_Witness ==
    ev.kind = "_handleRemoteCheckout" /\ ev.done = "fetch" /\ ev.err # "" /\ ev.ended

\* C13: the flush that follows a checkout notifies, the flush that follows a
\* pull or a push does not, and a flush without notification follows only an
\* operation that left the working tree as it was.
C13_NotifyStep ==
    ev'.op = "flushChanges" =>
        /\ ev'.done = "checkout" => ev'.notify
        /\ ev'.done \in {"pull", "push"} => ~ev'.notify
        /\ ~ev'.notify => eng'.workTree = eng.workTree
C13_NotifyIffTreeChanged == [][C13_NotifyStep]_vars

\* C14: a refresh that finds the repository unconfigured never queries the
\* engine; it issues the clearing write exactly when one of the three stored
\* fields is non-null, and otherwise returns leaving the record as it is; the
\* write sets the three fields to null and ends the refresh.
C14_AnyCached(wm) ==
    \/ wm.cachedGitRepositoryBranch # <<>>
    \/ wm.cachedGitLastAuthor # <<>>
    \/ wm.cachedGitLastCommitTime # <<>>
C14_RefreshStep(p) ==
    /\ (procs[p].pc = "r_meta" /\ procs'[p].pc # "r_meta"
          /\ (~eng.initialized \/ meta.gitRepositoryId = <<>>)) =>
          /\ meta' = meta
          /\ ev'.op \notin EngineOps
          /\ IF C14_AnyCached(meta)
             THEN ev'.op = "updateByParentId" /\ procs'[p].pc = "r_clear"
             ELSE ev'.ended /\ ev'.op = "none" /\ procs'[p].pc = "idle"
    /\ (procs[p].pc = "r_clear" /\ procs'[p].pc # "r_clear") =>
          /\ ~C14_AnyCached(meta')
          /\ meta'.gitRepositoryId = meta.gitRepositoryId
          /\ ev'.ended /\ ev'.op = "none" /\ procs'[p].pc = "idle"
C14_UnconfiguredRefreshClearsOnce == [][\A p \in Procs : C14_RefreshStep(p)]_vars

\* C14 witness: a refresh has just cleared a cache that held values.
C14_Witness ==
    /\ ev.ended /\ ev.done = "updateByParentId"
    /\ ~C14_AnyCached(meta)
    /\ ~eng.initialized \/ meta.gitRepositoryId = <<>>

\* C15: a refresh of a configured repository keeps the branch getBranch
\* returned and the history log returned, newest entry first, and writes that
\* branch, the author name of the first entry and its author timestamp times
\* 1000; with an empty history it writes the branch and null for the other two.
C15_RefreshStep(p) ==
    LET pr == procs[p]
        nx == procs'[p]
    IN /\ (pr.pc = "r_getBranch" /\ nx.pc = "r_listBranches") => nx.lbranch = eng.branch
       /\ (pr.pc = "r_log" /\ nx.pc = "r_write") =>
             /\ {nx.llog[i].oid : i \in 1..Len(nx.llog)} = Ancestors(eng, eng.head[eng.branch])
             /\ \A i \in 1..Len(nx.llog) :
                  nx.llog[i].commit.author.timestamp <= nx.llog[1].commit.author.timestamp
       /\ (pr.pc = "r_write" /\ nx.pc # "r_write") =>
             /\ meta'.cachedGitRepositoryBranch = <<pr.lbranch>>
             /\ meta'.gitRepositoryId = meta.gitRepositoryId
             /\ IF Len(pr.llog) = 0
                THEN /\ meta'.cachedGitLastAuthor = <<>>
                     /\ meta'.cachedGitLastCommitTime = <<>>
                ELSE /\ meta'.cachedGitLastAuthor = <<pr.llog[1].commit.author.name>>
                     /\ meta'.cachedGitLastCommitTime = <<pr.llog[1].commit.author.timestamp * 1000>>
C15_RefreshWritesBranchAuthorMillis == [][\A p \in Procs : C15_RefreshStep(p)]_vars

\* C15 witness: a refresh has just written the author and the commit time of a
\* repository with history.
C15_Witness ==
    /\ ev.ended /\ ev.done = "updateByParentId"
    /\ meta.cachedGitLastAuthor # <<>> /\ meta.cachedGitLastCommitTime # <<>>

\* C16: for a configured repository, while the engine's history is empty Push
\* is not offered and no _handlePush starts; and whenever no handler is running
\* and the engine's history is not empty, Push is offered.
C16_PushOffered == Len(dstate.log) > 0
C16_EngineLogEmpty == \A o \in Log(eng, db) : o.val = <<>>
C16_PushOfferedIffHistory ==
    ~Unconfigured(eng, meta) =>
        /\ C16_EngineLogEmpty =>
              /\ ~C16_PushOffered
              /\ ~(ev.kind = "_handlePush" /\ ev.done = "none")
        /\ ((\A p \in Procs : IsIdle(p)) /\ ~C16_EngineLogEmpty) => C16_PushOffered

\* C17: when merge threw, _handleMerge ends in that step: nothing else is
\* invoked, no buffer was opened, the error is in the modal's error state, and
\* the step leaves the current branch, the database, the entities and the
\* modal's branch and branches as they were; the buffer and the checkout that
\* follow a merge are invoked only after that merge returned.
C17_MergeFailureStops ==
    ev.kind = "_handleMerge" =>
        /\ (ev.done = "merge" /\ ev.err # "") =>
              /\ ev.ended /\ ev.op = "none" /\ ev.endBuf = 0
              /\ ev.report = "modalError" /\ mstate.error = ev.err
        /\ ev.op = "bufferChanges" => (ev.done = "merge" /\ ev.err = "")
        /\ ev.op \in {"checkout", "flushChanges", "handleInitializeEntities"} => ev.made # 0
C17_MergeFailureStep ==
    (ev'.kind = "_handleMerge" /\ ev'.done = "merge" /\ ev'.err # "") =>
        /\ eng'.branch = eng.branch /\ eng'.head = eng.head /\ eng'.workTree = eng.workTree
        /\ mstate'.branch = mstate.branch /\ mstate'.branches = mstate.branches
        /\ UNCHANGED <<db, entities>>
C17_MergeFailureLeavesState == []C17_MergeFailureStops /\ [][C17_MergeFailureStep]_vars

\* C17 witness: a merge failed with a conflict and the handler ended.
C17_Witness ==
    ev.kind = "_handleMerge" /\ ev.done = "merge" /\ ev.err = "MergeConflictError" /\ ev.ended

\* C18: merge, and the checkout of a remote checkout, are invoked by an
\* invocation that completed a fetch with depth greater than 1; a fetch with
\* depth 1 is invoked only by show().
C18_DeepFetchBeforeHistoryOps ==
    /\ ev.op = "merge" => ev.fetched > 1
    /\ (ev.op = "checkout" /\ ev.kind = "_handleRemoteCheckout") => ev.fetched > 1
    /\ (ev.op = "fetch" /\ ev.depth = 1) => ev.kind = "show"

\* C19: when a refresh has written the cache and no handler is running any
\* more, the cached branch is the engine's current branch and the cached
\* author and time are those of the newest entry of the engine's history.
C19_EngineLog == NewestFirst(eng, Ancestors(eng, eng.head[eng.branch]))
C19_CacheMatchesEngine ==
    /\ meta.cachedGitRepositoryBranch = <<eng.branch>>
    /\ IF Len(C19_EngineLog) = 0
       THEN meta.cachedGitLastAuthor = <<>> /\ meta.cachedGitLastCommitTime = <<>>
       ELSE /\ meta.cachedGitLastAuthor = <<C19_EngineLog[1].commit.author.name>>
            /\ meta.cachedGitLastCommitTime = <<C19_EngineLog[1].commit.author.timestamp * 1000>>
C19_CacheConvergesAfterRefreshes ==
    (/\ ev.ended /\ ev.done = "updateByParentId" /\ ev.fault = ""
     /\ \A p \in Procs : IsIdle(p)
     /\ ~Unconfigured(eng, meta))
        => C19_CacheMatchesEngine

\* C20: loadingPull is true exactly while a _handlePull invocation is running,
\* and loadingPush exactly while a _handlePush invocation is running.
C20_Running(kind) == \E p \in Procs : ~IsIdle(p) /\ procs[p].kind = kind
C20_LoadingFlagsTrackInFlight ==
    /\ dstate.loadingPull <=> C20_Running("_handlePull")
    /\ dstate.loadingPush <=> C20_Running("_handlePush")

====
